---- MODULE Spec2Model ----
(***************************************************************************)
(* State machine of the App component (src/App.tsx): the session state     *)
(* held in React state hooks, the event handlers, and the two external     *)
(* calls (identifyIngredientsFromImage, generateRecipes) whose promises    *)
(* are pending between the handler's synchronous part and its              *)
(* continuation.                                                           *)
(***************************************************************************)
EXTENDS Integers, Sequences, FiniteSets, TLC

(* ------------------------------ bounds --------------------------------- *)
\* longest ingredient list the identify call returns
MaxIdentified == 2
\* longest recipe list the generate call returns
MaxRecipes == 1
\* most promises pending at the same time
MaxPending == 2

(* ----------------------------- universes ------------------------------- *)
Names == {"tomato", "egg"}

Images == {"img"}

NoImage == "none"

\* Recipe (types): recipeName plus the rest of the record, stood for by
\* description; two recipes may share a name and differ in the rest.
Recipes ==
  { [recipeName |-> "Omelet", description |-> "d1"],
    [recipeName |-> "Omelet", description |-> "d2"],
    [recipeName |-> "Salad",  description |-> "d1"] }

\* selectedRecipe = null
NoRecipe == [recipeName |-> "", description |-> ""]

\* useState<UserProfile>() initial value
DefaultProfile ==
  [name |-> "", age |-> "", gender |-> "nao_informar", dietaryRestrictions |-> <<>>]

Profiles ==
  { DefaultProfile,
    [name |-> "Ana", age |-> "30", gender |-> "feminino",
     dietaryRestrictions |-> <<"vegano">>] }

Tabs == {"Inicio", "Favoritos", "Lista de Compras", "Perfil"}

\* error = null
Null == "null"

IdentifyFailedMsg == "Falha ao identificar ingredientes. Tente uma foto mais nitida."

GenerateFailedMsg == "Falha ao buscar receitas. Tente novamente mais tarde."

IdentifyingMsg == "Identificando ingredientes..."

SuggestingMsg == "Sugerindo receitas..."

RECURSIVE SeqsUpTo(_, _)
\* all sequences over S of length at most n
SeqsUpTo(S, n) ==
  IF n = 0 THEN {<<>>}
  ELSE LET shorter == SeqsUpTo(S, n - 1)
       IN  shorter \cup {Append(s, x) : s \in shorter, x \in S}

\* what identifyIngredientsFromImage may resolve with
IdentifyResults == SeqsUpTo(Names, MaxIdentified)

\* what generateRecipes (the service) may resolve with
GenerateResults == SeqsUpTo(Recipes, MaxRecipes)

(* ------------------------------- state --------------------------------- *)
VARIABLES
  isAuthenticated, ingredients, recipes, favoriteRecipes, shoppingList,
  isLoading, loadingMessage, error, activeTab, selectedRecipe, isCameraOpen,
  profile,
  pending,   \* the suspended async handlers, oldest call first
  last       \* history: the handler or continuation that ran last

state == <<isAuthenticated, ingredients, recipes, favoriteRecipes, shoppingList,
           isLoading, loadingMessage, error, activeTab, selectedRecipe,
           isCameraOpen, profile>>

vars == <<isAuthenticated, ingredients, recipes, favoriteRecipes, shoppingList,
          isLoading, loadingMessage, error, activeTab, selectedRecipe,
          isCameraOpen, profile, pending, last>>

(* ------------------------- sequence helpers ---------------------------- *)
\* Array.prototype.includes
Includes(s, x) == \E i \in 1..Len(s) : s[i] = x

\* prev.filter((_, i) => i !== index): the elements whose 0-based position is
\* not index, in order
FilterOutIndex(s, index) ==
  LET F[k \in 0..Len(s)] ==
        IF k = 0 THEN <<>>
        ELSE IF k - 1 # index THEN Append(F[k - 1], s[k]) ELSE F[k - 1]
  IN  F[Len(s)]

(* ------------------------- pending promises ---------------------------- *)
\* handleCapture suspended at `await identifyIngredientsFromImage(imageBase64)`.
\* profile is the profile of the render whose handleCapture is running: the
\* useCallback chain handleCapture -> handleGenerateRecipes -> profile.
\* overtaken (history): a call issued later has already settled.
IdentifyCall(imageBase64, closureProfile) ==
  [call |-> "identify", image |-> imageBase64, ingredients |-> <<>>,
   profile |-> closureProfile, overtaken |-> FALSE]

\* handleGenerateRecipes suspended at `await generateRecipes(currentIngredients, profile)`;
\* ingredients and profile are the arguments of the request.
GenerateCall(currentIngredients, closureProfile) ==
  [call |-> "generate", image |-> NoImage, ingredients |-> currentIngredients,
   profile |-> closureProfile, overtaken |-> FALSE]

\* pending without the call at position i, which settles now; the calls
\* issued before it are marked overtaken
Settle(i) ==
  [k \in 1..(Len(pending) - 1) |->
     IF k < i THEN [pending[k] EXCEPT !.overtaken = TRUE] ELSE pending[k + 1]]

\* history record of the step taken: the handler or continuation that ran,
\* for a continuation whether its call had been overtaken, and the list the
\* step was given (a handler's argument, a call's response; <<>> if none; an
\* ingredient name or an index as a list of one)
Last(op, ov, val) == [op |-> op, overtaken |-> ov, value |-> val]

(* ------------------------------ handlers ------------------------------- *)
\* handleGenerateRecipes without setError(null)
handleGenerateRecipesKeepsError(currentIngredients, closureProfile, rest) ==
  IF Len(currentIngredients) = 0
  THEN /\ recipes' = <<>>
       /\ pending' = rest
       /\ UNCHANGED <<loadingMessage, isLoading, error>>
  ELSE /\ loadingMessage' = SuggestingMsg
       /\ isLoading' = TRUE
       /\ pending' = Append(rest, GenerateCall(currentIngredients, closureProfile))
       /\ UNCHANGED <<recipes, error>>

\* handleGenerateRecipes without the early return on an empty list
handleGenerateRecipesNoEarlyReturn(currentIngredients, closureProfile, rest) ==
  /\ loadingMessage' = SuggestingMsg
  /\ isLoading' = TRUE
  /\ error' = Null
  /\ pending' = Append(rest, GenerateCall(currentIngredients, closureProfile))
  /\ UNCHANGED recipes

\* handleGenerateRecipes up to its await (or its early return), run by the
\* instance that closed over closureProfile; rest is the list of the other
\* pending promises.
handleGenerateRecipes(currentIngredients, closureProfile, rest) ==
  IF Len(currentIngredients) = 0
  THEN /\ recipes' = <<>>
       /\ pending' = rest
       /\ UNCHANGED <<loadingMessage, isLoading, error>>
  ELSE /\ loadingMessage' = SuggestingMsg
       /\ isLoading' = TRUE
       /\ error' = Null
       /\ pending' = Append(rest, GenerateCall(currentIngredients, closureProfile))
       /\ UNCHANGED recipes

\* handleCapture asking for recipes without waiting for the identification
handleCaptureFanOut(imageBase64) ==
  /\ isCameraOpen' = FALSE
  /\ isLoading' = TRUE
  /\ loadingMessage' = IdentifyingMsg
  /\ error' = Null
  /\ ingredients' = <<>>
  /\ recipes' = <<>>
  /\ pending' = pending \o <<IdentifyCall(imageBase64, profile),
                            GenerateCall(<<"tomato">>, profile)>>
  /\ UNCHANGED <<isAuthenticated, favoriteRecipes, shoppingList, activeTab,
                 selectedRecipe, profile>>

\* handleCapture without setIngredients([]) and setRecipes([])
handleCaptureKeepsLists(imageBase64) ==
  /\ isCameraOpen' = FALSE
  /\ isLoading' = TRUE
  /\ loadingMessage' = IdentifyingMsg
  /\ error' = Null
  /\ pending' = Append(pending, IdentifyCall(imageBase64, profile))
  /\ UNCHANGED <<isAuthenticated, ingredients, recipes, favoriteRecipes,
                 shoppingList, activeTab, selectedRecipe, profile>>

\* handleCapture up to `await identifyIngredientsFromImage`
handleCapture(imageBase64) ==
  /\ isCameraOpen' = FALSE
  /\ isLoading' = TRUE
  /\ loadingMessage' = IdentifyingMsg
  /\ error' = Null
  /\ ingredients' = <<>>
  /\ recipes' = <<>>
  /\ pending' = Append(pending, IdentifyCall(imageBase64, profile))
  /\ UNCHANGED <<isAuthenticated, favoriteRecipes, shoppingList, activeTab,
                 selectedRecipe, profile>>

\* handleCapture chaining into handleGenerateRecipes whatever was identified
IdentifyResolvedAlwaysChains(i, identified) ==
  /\ i \in 1..Len(pending)
  /\ pending[i].call = "identify"
  /\ ingredients' = identified
  /\ loadingMessage' = SuggestingMsg
  /\ isLoading' = TRUE
  /\ error' = Null
  /\ pending' = Append(Settle(i), GenerateCall(identified, pending[i].profile))
  /\ last' = Last("identifyResolved", pending[i].overtaken, identified)
  /\ UNCHANGED <<isAuthenticated, recipes, favoriteRecipes, shoppingList, activeTab,
                 selectedRecipe, isCameraOpen, profile>>

\* handleCapture without the else branch of lines 70-73
IdentifyResolvedKeepsLoading(i, identified) ==
  /\ i \in 1..Len(pending)
  /\ pending[i].call = "identify"
  /\ ingredients' = identified
  /\ IF Len(identified) > 0
     THEN handleGenerateRecipes(identified, pending[i].profile, Settle(i))
     ELSE /\ pending' = Settle(i)
          /\ UNCHANGED <<isLoading, loadingMessage, recipes, error>>
  /\ last' = Last("identifyResolved", pending[i].overtaken, identified)
  /\ UNCHANGED <<isAuthenticated, favoriteRecipes, shoppingList, activeTab,
                 selectedRecipe, isCameraOpen, profile>>

\* handleCapture resumed with the identified list: lines 67-73
IdentifyResolved(i, identified) ==
  /\ i \in 1..Len(pending)
  /\ pending[i].call = "identify"
  /\ ingredients' = identified
  /\ IF Len(identified) > 0
     THEN handleGenerateRecipes(identified, pending[i].profile, Settle(i))
     ELSE /\ isLoading' = FALSE
          /\ loadingMessage' = ""
          /\ pending' = Settle(i)
          /\ UNCHANGED <<recipes, error>>
  /\ last' = Last("identifyResolved", pending[i].overtaken, identified)
  /\ UNCHANGED <<isAuthenticated, favoriteRecipes, shoppingList, activeTab,
                 selectedRecipe, isCameraOpen, profile>>

\* the catch block of handleCapture without setIsLoading(false)
IdentifyRejectedKeepsLoading(i) ==
  /\ i \in 1..Len(pending)
  /\ pending[i].call = "identify"
  /\ error' = IdentifyFailedMsg
  /\ loadingMessage' = ""
  /\ pending' = Settle(i)
  /\ last' = Last("identifyRejected", pending[i].overtaken, <<>>)
  /\ UNCHANGED <<isAuthenticated, ingredients, recipes, favoriteRecipes, isLoading,
                 shoppingList, activeTab, selectedRecipe, isCameraOpen, profile>>

\* handleCapture resumed in its catch block: lines 74-79
IdentifyRejected(i) ==
  /\ i \in 1..Len(pending)
  /\ pending[i].call = "identify"
  /\ error' = IdentifyFailedMsg
  /\ isLoading' = FALSE
  /\ loadingMessage' = ""
  /\ pending' = Settle(i)
  /\ last' = Last("identifyRejected", pending[i].overtaken, <<>>)
  /\ UNCHANGED <<isAuthenticated, ingredients, recipes, favoriteRecipes,
                 shoppingList, activeTab, selectedRecipe, isCameraOpen, profile>>

\* handleGenerateRecipes discarding the response of an overtaken call
GenerateResolvedDropsStale(i, suggestedRecipes) ==
  /\ i \in 1..Len(pending)
  /\ pending[i].call = "generate"
  /\ recipes' = IF pending[i].overtaken THEN recipes ELSE suggestedRecipes
  /\ isLoading' = FALSE
  /\ loadingMessage' = ""
  /\ pending' = Settle(i)
  /\ last' = Last("generateResolved", pending[i].overtaken, suggestedRecipes)
  /\ UNCHANGED <<isAuthenticated, ingredients, favoriteRecipes, shoppingList,
                 error, activeTab, selectedRecipe, isCameraOpen, profile>>

\* handleGenerateRecipes resumed with the suggested recipes: lines 48, 53-54
GenerateResolved(i, suggestedRecipes) ==
  /\ i \in 1..Len(pending)
  /\ pending[i].call = "generate"
  /\ recipes' = suggestedRecipes
  /\ isLoading' = FALSE
  /\ loadingMessage' = ""
  /\ pending' = Settle(i)
  /\ last' = Last("generateResolved", pending[i].overtaken, suggestedRecipes)
  /\ UNCHANGED <<isAuthenticated, ingredients, favoriteRecipes, shoppingList,
                 error, activeTab, selectedRecipe, isCameraOpen, profile>>

\* the catch block of handleGenerateRecipes rolling the ingredient list back
GenerateRejectedRollsBack(i) ==
  /\ i \in 1..Len(pending)
  /\ pending[i].call = "generate"
  /\ error' = GenerateFailedMsg
  /\ ingredients' = <<>>
  /\ isLoading' = FALSE
  /\ loadingMessage' = ""
  /\ pending' = Settle(i)
  /\ last' = Last("generateRejected", pending[i].overtaken, <<>>)
  /\ UNCHANGED <<isAuthenticated, recipes, favoriteRecipes,
                 shoppingList, activeTab, selectedRecipe, isCameraOpen, profile>>

\* handleGenerateRecipes resumed in its catch block: lines 49-54
GenerateRejected(i) ==
  /\ i \in 1..Len(pending)
  /\ pending[i].call = "generate"
  /\ error' = GenerateFailedMsg
  /\ isLoading' = FALSE
  /\ loadingMessage' = ""
  /\ pending' = Settle(i)
  /\ last' = Last("generateRejected", pending[i].overtaken, <<>>)
  /\ UNCHANGED <<isAuthenticated, ingredients, recipes, favoriteRecipes,
                 shoppingList, activeTab, selectedRecipe, isCameraOpen, profile>>

\* the updater with the filter keeping the recipes of that name
toggleFavoriteKeepsMatching(prev, recipe) ==
  LET isFavorite == \E k \in 1..Len(prev) : prev[k].recipeName = recipe.recipeName
      Same(r) == r.recipeName = recipe.recipeName
  IN  IF isFavorite THEN SelectSeq(prev, Same) ELSE Append(prev, recipe)

\* the updater testing membership by the whole record, not by the name
toggleFavoriteByRecord(prev, recipe) ==
  LET isFavorite == \E k \in 1..Len(prev) : prev[k] = recipe
      Other(r) == r.recipeName # recipe.recipeName
  IN  IF isFavorite THEN SelectSeq(prev, Other) ELSE Append(prev, recipe)

\* the updater passed to setFavoriteRecipes
toggleFavorite(prev, recipe) ==
  LET isFavorite == \E k \in 1..Len(prev) : prev[k].recipeName = recipe.recipeName
      Other(r) == r.recipeName # recipe.recipeName
  IN  IF isFavorite THEN SelectSeq(prev, Other) ELSE Append(prev, recipe)

isRecipeFavorite(recipe) ==
  \E k \in 1..Len(favoriteRecipes) : favoriteRecipes[k].recipeName = recipe.recipeName

handleToggleFavorite(recipe) ==
  /\ favoriteRecipes' = toggleFavorite(favoriteRecipes, recipe)
  /\ UNCHANGED <<isAuthenticated, ingredients, recipes, shoppingList, isLoading,
                 loadingMessage, error, activeTab, selectedRecipe, isCameraOpen,
                 profile, pending>>

\* handleAddIngredient without the includes test
handleAddIngredientAlways(ingredient) ==
  /\ ingredients' = Append(ingredients, ingredient)
  /\ UNCHANGED <<isAuthenticated, recipes, favoriteRecipes, shoppingList,
                 isLoading, loadingMessage, error, activeTab, selectedRecipe,
                 isCameraOpen, profile, pending>>

handleAddIngredient(ingredient) ==
  /\ ingredients' = IF ~Includes(ingredients, ingredient)
                    THEN Append(ingredients, ingredient)
                    ELSE ingredients
  /\ UNCHANGED <<isAuthenticated, recipes, favoriteRecipes, shoppingList,
                 isLoading, loadingMessage, error, activeTab, selectedRecipe,
                 isCameraOpen, profile, pending>>

\* handleRemoveIngredient with splice(index, 1): a negative index counts from
\* the end
handleRemoveIngredientSplice(index) ==
  /\ ingredients' = FilterOutIndex(ingredients,
                                   IF index < 0 THEN Len(ingredients) + index ELSE index)
  /\ UNCHANGED <<isAuthenticated, recipes, favoriteRecipes, shoppingList,
                 isLoading, loadingMessage, error, activeTab, selectedRecipe,
                 isCameraOpen, profile, pending>>

handleRemoveIngredient(index) ==
  /\ ingredients' = FilterOutIndex(ingredients, index)
  /\ UNCHANGED <<isAuthenticated, recipes, favoriteRecipes, shoppingList,
                 isLoading, loadingMessage, error, activeTab, selectedRecipe,
                 isCameraOpen, profile, pending>>

handleProfileSave(updatedProfile) ==
  /\ profile' = updatedProfile
  /\ UNCHANGED <<isAuthenticated, ingredients, recipes, favoriteRecipes,
                 shoppingList, isLoading, loadingMessage, error, activeTab,
                 selectedRecipe, isCameraOpen, pending>>

\* handleIdentifyClick opening the camera whatever the ingredient list holds
handleIdentifyClickAlwaysCamera ==
  /\ isCameraOpen' = TRUE
  /\ UNCHANGED <<isAuthenticated, ingredients, recipes, favoriteRecipes,
                 shoppingList, isLoading, loadingMessage, error, activeTab,
                 selectedRecipe, profile, pending>>

\* handleIdentifyClick belongs to the current render: it reads the current
\* ingredients and calls the handleGenerateRecipes that closed over the
\* current profile.
handleIdentifyClick ==
  IF Len(ingredients) > 0
  THEN /\ handleGenerateRecipes(ingredients, profile, pending)
       /\ UNCHANGED <<isAuthenticated, ingredients, favoriteRecipes, shoppingList,
                      activeTab, selectedRecipe, isCameraOpen, profile>>
  ELSE /\ isCameraOpen' = TRUE
       /\ UNCHANGED <<isAuthenticated, ingredients, recipes, favoriteRecipes,
                      shoppingList, isLoading, loadingMessage, error, activeTab,
                      selectedRecipe, profile, pending>>

(* --------------------------- what is rendered -------------------------- *)
\* renderContent shows the tab only when no recipe is selected
TabShown(tab) == isAuthenticated /\ selectedRecipe = NoRecipe /\ activeTab = tab

\* IdentifyButton receives loading={isLoading}; the click is not guarded
\* while loading
IdentifyButtonEnabled == TRUE

\* room for one more pending promise
CanIssue == Len(pending) < MaxPending

(* ------------------------------- events -------------------------------- *)
Login ==
  /\ ~isAuthenticated
  /\ isAuthenticated' = TRUE
  /\ last' = Last("login", FALSE, <<>>)
  /\ UNCHANGED <<ingredients, recipes, favoriteRecipes, shoppingList, isLoading,
                 loadingMessage, error, activeTab, selectedRecipe, isCameraOpen,
                 profile, pending>>

IdentifyClick ==
  /\ TabShown("Inicio")
  /\ IdentifyButtonEnabled
  /\ Len(ingredients) > 0 => CanIssue
  /\ handleIdentifyClick
  /\ last' = Last("handleIdentifyClick", FALSE, ingredients)

Capture(imageBase64) ==
  /\ isAuthenticated
  /\ isCameraOpen
  /\ CanIssue
  /\ handleCapture(imageBase64)
  /\ last' = Last("handleCapture", FALSE, <<>>)

CameraClose ==
  /\ isAuthenticated
  /\ isCameraOpen
  /\ isCameraOpen' = FALSE
  /\ last' = Last("cameraClose", FALSE, <<>>)
  /\ UNCHANGED <<isAuthenticated, ingredients, recipes, favoriteRecipes,
                 shoppingList, isLoading, loadingMessage, error, activeTab,
                 selectedRecipe, profile, pending>>

AddIngredient(ingredient) ==
  /\ TabShown("Inicio")
  /\ handleAddIngredient(ingredient)
  /\ last' = Last("handleAddIngredient", FALSE, <<ingredient>>)

RemoveIngredient(index) ==
  /\ TabShown("Inicio")
  /\ index \in 0..(Len(ingredients) - 1)
  /\ handleRemoveIngredient(index)
  /\ last' = Last("handleRemoveIngredient", FALSE, <<index>>)

\* a list view offering recipes that are in neither list
SelectRecipeNotListed(recipe) ==
  /\ TabShown("Inicio") \/ TabShown("Favoritos")
  /\ selectedRecipe' = recipe
  /\ last' = Last("selectRecipe", FALSE, <<>>)
  /\ UNCHANGED <<isAuthenticated, ingredients, recipes, favoriteRecipes,
                 shoppingList, isLoading, loadingMessage, error, activeTab,
                 isCameraOpen, profile, pending>>

\* onRecipeSelect={setSelectedRecipe} of RecipeSuggestions and FavoritesView
SelectRecipe(recipe) ==
  /\ \/ TabShown("Inicio") /\ Includes(recipes, recipe)
     \/ TabShown("Favoritos") /\ Includes(favoriteRecipes, recipe)
  /\ selectedRecipe' = recipe
  /\ last' = Last("selectRecipe", FALSE, <<>>)
  /\ UNCHANGED <<isAuthenticated, ingredients, recipes, favoriteRecipes,
                 shoppingList, isLoading, loadingMessage, error, activeTab,
                 isCameraOpen, profile, pending>>

\* onBack of RecipeDetailView
Back ==
  /\ isAuthenticated
  /\ selectedRecipe # NoRecipe
  /\ selectedRecipe' = NoRecipe
  /\ last' = Last("back", FALSE, <<>>)
  /\ UNCHANGED <<isAuthenticated, ingredients, recipes, favoriteRecipes,
                 shoppingList, isLoading, loadingMessage, error, activeTab,
                 isCameraOpen, profile, pending>>

\* onToggleFavorite of RecipeDetailView, on the recipe it shows
ToggleFavorite ==
  /\ isAuthenticated
  /\ selectedRecipe # NoRecipe
  /\ handleToggleFavorite(selectedRecipe)
  /\ last' = Last("handleToggleFavorite", FALSE, <<>>)

\* onTabChange={setActiveTab} of BottomNav
TabChange(tab) ==
  /\ isAuthenticated
  /\ selectedRecipe = NoRecipe
  /\ activeTab' = tab
  /\ last' = Last("tabChange", FALSE, <<>>)
  /\ UNCHANGED <<isAuthenticated, ingredients, recipes, favoriteRecipes,
                 shoppingList, isLoading, loadingMessage, error, selectedRecipe,
                 isCameraOpen, profile, pending>>

ProfileSave(updatedProfile) ==
  /\ TabShown("Perfil")
  /\ handleProfileSave(updatedProfile)
  /\ last' = Last("handleProfileSave", FALSE, <<>>)

(* ---------------------- handlers called directly ----------------------- *)
\* The handlers as operations of the controller, called with any argument
\* whatever is on screen.
CallCapture(imageBase64) ==
  /\ isAuthenticated
  /\ CanIssue
  /\ handleCapture(imageBase64)
  /\ last' = Last("handleCapture", FALSE, <<>>)

CallGenerateRecipes(currentIngredients) ==
  /\ isAuthenticated
  /\ Len(currentIngredients) > 0 => CanIssue
  /\ handleGenerateRecipes(currentIngredients, profile, pending)
  /\ last' = Last("handleGenerateRecipes", FALSE, currentIngredients)
  /\ UNCHANGED <<isAuthenticated, ingredients, favoriteRecipes, shoppingList,
                 activeTab, selectedRecipe, isCameraOpen, profile>>

CallAddIngredient(ingredient) ==
  /\ isAuthenticated
  /\ handleAddIngredient(ingredient)
  /\ last' = Last("handleAddIngredient", FALSE, <<ingredient>>)

CallRemoveIngredient(index) ==
  /\ isAuthenticated
  /\ handleRemoveIngredient(index)
  /\ last' = Last("handleRemoveIngredient", FALSE, <<index>>)

CallProfileSave(updatedProfile) ==
  /\ isAuthenticated
  /\ handleProfileSave(updatedProfile)
  /\ last' = Last("handleProfileSave", FALSE, <<>>)

(* --------------------------- specifications ---------------------------- *)
Init ==
  /\ isAuthenticated = FALSE
  /\ ingredients = <<>>
  /\ recipes = <<>>
  /\ favoriteRecipes = <<>>
  /\ shoppingList = <<>>
  /\ isLoading = FALSE
  /\ loadingMessage = ""
  /\ error = Null
  /\ activeTab = "Inicio"
  /\ selectedRecipe = NoRecipe
  /\ isCameraOpen = FALSE
  /\ profile = DefaultProfile
  /\ pending = <<>>
  /\ last = [op |-> "init", overtaken |-> FALSE, value |-> <<>>]

\* the promises settle: the continuations of handleCapture and handleGenerateRecipes
Settled ==
  \/ \E i \in 1..Len(pending), identified \in IdentifyResults : IdentifyResolved(i, identified)
  \/ \E i \in 1..Len(pending) : IdentifyRejected(i)
  \/ \E i \in 1..Len(pending), suggestedRecipes \in GenerateResults : GenerateResolved(i, suggestedRecipes)
  \/ \E i \in 1..Len(pending) : GenerateRejected(i)

\* the identify button and the camera
Triggered ==
  \/ Login
  \/ IdentifyClick
  \/ \E imageBase64 \in Images : Capture(imageBase64)
  \/ CameraClose

\* the bottom navigation
Navigated == \E tab \in Tabs : TabChange(tab)

\* the ingredient list and the profile form
Edited ==
  \/ \E ingredient \in Names : AddIngredient(ingredient)
  \/ \E index \in 0..(Len(ingredients) - 1) : RemoveIngredient(index)
  \/ \E updatedProfile \in Profiles : ProfileSave(updatedProfile)

\* the recipe lists and the recipe detail view
Browsed ==
  \/ \E recipe \in Recipes : SelectRecipe(recipe)
  \/ Back
  \/ ToggleFavorite

Next == Triggered \/ Settled \/ Navigated \/ Edited \/ Browsed

\* The whole component.
Spec == Init /\ [][Next]_vars

\* The component without the recipe detail view. SelectRecipe, Back and
\* ToggleFavorite write selectedRecipe and favoriteRecipes only, which no
\* handler of the workflow reads.
HomeNext == Triggered \/ Settled \/ Navigated \/ Edited

SpecHome == Init /\ [][HomeNext]_vars

\* The component without the ingredient and profile editors, which write
\* ingredients and profile only: the recipe, favourite and selection state
\* under every workflow.
FavNext == Triggered \/ Settled \/ Navigated \/ Browsed

SpecFav == Init /\ [][FavNext]_vars

\* The controller: every handler called in any order with any argument.
Started ==
  \/ Login
  \/ \E imageBase64 \in Images : CallCapture(imageBase64)
  \/ \E currentIngredients \in IdentifyResults \cup {ingredients} :
       CallGenerateRecipes(currentIngredients)

Amended ==
  \/ \E ingredient \in Names : CallAddIngredient(ingredient)
  \/ \E index \in (-1)..Len(ingredients) : CallRemoveIngredient(index)
  \/ \E updatedProfile \in Profiles : CallProfileSave(updatedProfile)

CtlNext == Started \/ Amended \/ Settled

SpecCtl == Init /\ [][CtlNext]_vars

\* The workflows alone, every pending call eventually answered: the service
\* resolves or rejects each request. The editors left out write ingredients
\* and profile only, which no step reads to set loading.
LiveNext == Started \/ Settled

SpecLive == Init /\ [][LiveNext]_vars /\ WF_vars(Settled)

TypeOK ==
  /\ isAuthenticated \in BOOLEAN
  /\ isLoading \in BOOLEAN
  /\ isCameraOpen \in BOOLEAN
  /\ activeTab \in Tabs
  /\ profile \in Profiles
  /\ error \in {Null, IdentifyFailedMsg, GenerateFailedMsg}
  /\ loadingMessage \in {"", IdentifyingMsg, SuggestingMsg}
  /\ selectedRecipe \in Recipes \cup {NoRecipe}
  /\ Len(pending) <= MaxPending

(* ------------------------------- claims -------------------------------- *)
\* number of pending calls of one kind
NumCalls(calls, kind) == Cardinality({k \in 1..Len(calls) : calls[k].call = kind})

\* the step ran handleGenerateRecipes with a non-empty list: from the button
\* (the list is the current ingredients) or chained after an identification
\* (the list is the identified one)
ClickedWithIngredients == last'.op = "handleIdentifyClick" /\ Len(ingredients) > 0

ChainedWithIngredients == last'.op = "identifyResolved" /\ Len(last'.value) > 0

\* C1: every invocation of handleGenerateRecipes with a non-empty list L
\* issues exactly one generate request, whose arguments are L and the profile
\* stored at that moment; a request that succeeds with R makes recipes = R.
C1_RequestCarriesListAndStoredProfile ==
  [][ /\ ClickedWithIngredients
           => pending' = Append(pending, GenerateCall(ingredients, profile))
      /\ ChainedWithIngredients
           => /\ Len(pending') = Len(pending)
              /\ NumCalls(pending', "generate") = NumCalls(pending, "generate") + 1
              /\ pending'[Len(pending')] = GenerateCall(last'.value, profile)
      /\ last'.op = "generateResolved" => recipes' = last'.value ]_vars

\* C2: when the identify call of a capture resolves with a non-empty list L, a
\* generate request is issued with L and the profile stored then (a profile
\* saved while identify was pending included); when that request succeeds
\* with R as the very next step, ingredients = L, recipes = R, loading is
\* false and error is null.
C2_CaptureEndsWithRecipesForStoredProfile ==
  [][ /\ ChainedWithIngredients
           => \E k \in 1..Len(pending') :
                /\ pending'[k].call = "generate"
                /\ pending'[k].ingredients = last'.value
                /\ pending'[k].profile = profile'
      /\ ( /\ last.op = "identifyResolved"
           /\ Len(last.value) > 0
           /\ last'.op = "generateResolved"
           /\ pending' = Settle(Len(pending)) )
           => /\ ingredients' = last.value
              /\ recipes' = last'.value
              /\ isLoading' = FALSE
              /\ error' = Null ]_vars

\* C3 as stated: when the identify call of a capture rejects, no generate
\* request is issued and the resulting state has empty ingredients, empty
\* recipes, the identification-failure message and loading = false.
C3_RejectionLeavesEmptyLists ==
  [][ last'.op = "identifyRejected"
        => /\ NumCalls(pending', "generate") = NumCalls(pending, "generate")
           /\ ingredients' = <<>>
           /\ recipes' = <<>>
           /\ error' = IdentifyFailedMsg
           /\ isLoading' = FALSE ]_vars

\* C3 amended: when the identify call of a capture rejects, no generate
\* request is issued, error is the identification-failure message, loading is
\* false with an empty status message, and the ingredient and recipe lists are
\* left as they were: empty when the rejection follows the capture directly.
C3_RejectionStopsAndKeepsLists ==
  [][ last'.op = "identifyRejected"
        => /\ NumCalls(pending', "generate") = NumCalls(pending, "generate")
           /\ Len(pending') = Len(pending) - 1
           /\ ingredients' = ingredients
           /\ recipes' = recipes
           /\ error' = IdentifyFailedMsg
           /\ isLoading' = FALSE
           /\ loadingMessage' = ""
           /\ last.op = "handleCapture" => (ingredients' = <<>> /\ recipes' = <<>>) ]_vars

\* an identification was rejected after the user had added an ingredient
C3_Witness ==
  /\ last.op = "identifyRejected"
  /\ error = IdentifyFailedMsg
  /\ ingredients # <<>>

\* the step is the last one of a workflow: a generate call settled, an
\* identify call rejected, or an identify call resolved with nothing in it
ExitStep ==
  \/ last'.op \in {"identifyRejected", "generateResolved", "generateRejected"}
  \/ last'.op = "identifyResolved" /\ Len(last'.value) = 0

\* C4: the last step of every capture or generate workflow, however its calls
\* ended, sets loading = false and the status message to empty; and when
\* every pending call is eventually answered, a loading state leads to a
\* state with loading = false.
C4_LoadingReleasedOnEveryExit ==
  /\ [][ExitStep => (isLoading' = FALSE /\ loadingMessage' = "")]_vars
  /\ (isLoading ~> ~isLoading)

\* a capture whose identification found nothing has released loading
C4_Witness ==
  /\ last.op = "identifyResolved"
  /\ Len(last.value) = 0
  /\ isLoading = FALSE
  /\ loadingMessage = ""

\* C5 as stated: every new attempt, a capture or handleGenerateRecipes with any
\* list, resets error to null.
C5_EveryAttemptResetsError ==
  [][ (\/ last'.op \in {"handleCapture", "handleGenerateRecipes"}
       \/ ClickedWithIngredients
       \/ ChainedWithIngredients) => error' = Null ]_vars

\* C5 amended: every capture and every handleGenerateRecipes with a non-empty
\* list resets error to null before its call goes out; handleGenerateRecipes
\* with an empty list returns before the reset and leaves error as it was.
C5_AttemptWithRequestResetsError ==
  [][ /\ last'.op = "handleCapture" => error' = Null
      /\ (last'.op = "handleGenerateRecipes" /\ Len(last'.value) > 0) => error' = Null
      /\ ClickedWithIngredients => error' = Null
      /\ ChainedWithIngredients => error' = Null
      /\ (last'.op = "handleGenerateRecipes" /\ Len(last'.value) = 0) => error' = error ]_vars

\* an error message has survived handleGenerateRecipes with an empty list
C5_Witness ==
  /\ last.op = "handleGenerateRecipes"
  /\ Len(last.value) = 0
  /\ error # Null

\* C6 as stated: at most one call, identify or generate, is pending in any
\* reachable state.
C6_AtMostOneInFlight == Len(pending) <= 1

\* C6 amended: within one workflow the calls are strictly sequential: only a
\* trigger (a capture, a click on the button) adds a pending call, one at a
\* time, and a resolved identify call is replaced by at most one generate call;
\* triggers are not held back while a call is pending, so calls of different
\* workflows are pending together.
C6_SequentialWithinWorkflow ==
  [][ /\ Len(pending') <= Len(pending) + 1
      /\ Len(pending') = Len(pending) + 1
           => last'.op \in {"handleCapture", "handleIdentifyClick"}
      /\ last'.op = "identifyResolved"
           => /\ NumCalls(pending', "identify") = NumCalls(pending, "identify") - 1
              /\ NumCalls(pending', "generate") <= NumCalls(pending, "generate") + 1 ]_vars

\* an identify call and a generate call of two workflows are pending together
C6_Witness ==
  /\ Len(pending) = 2
  /\ NumCalls(pending, "identify") = 1
  /\ NumCalls(pending, "generate") = 1

\* the step is the continuation of a call that settled
SettleStep ==
  last'.op \in {"identifyResolved", "identifyRejected", "generateResolved", "generateRejected"}

\* C7: no call is cancelled and the last write wins: whatever the user does
\* (closing the camera, changing tab, editing, starting another call) leaves
\* every pending call pending, and the response of a call that settles is
\* applied (recipes for generate, ingredients for
\* identify), also when a call issued later has settled before it.
C7_LateResponseApplied ==
  [][ /\ ~SettleStep => SubSeq(pending', 1, Len(pending)) = pending
      /\ last'.op = "generateResolved" => recipes' = last'.value
      /\ last'.op = "identifyResolved" => ingredients' = last'.value ]_vars

\* the older of two overlapping generate calls settled last, away from the
\* home tab, and its recipes are the ones shown
C7_Witness ==
  /\ last.op = "generateResolved"
  /\ last.overtaken
  /\ pending = <<>>
  /\ Len(recipes) > 0
  /\ recipes = last.value
  /\ activeTab # "Inicio"

\* C8: the ingredient list never holds the same name twice.
C8_NoDuplicateIngredient ==
  \A i, j \in 1..Len(ingredients) : i # j => ingredients[i] # ingredients[j]

\* C9: handleGenerateRecipes with an empty list issues no generate request and
\* sets the recipe list to empty.
C9_EmptyListIssuesNothing ==
  [][ (last'.op = "handleGenerateRecipes" /\ Len(last'.value) = 0)
        => (recipes' = <<>> /\ pending' = pending) ]_vars

\* handleGenerateRecipes ran with an empty list while another call was pending
C9_Witness ==
  /\ last.op = "handleGenerateRecipes"
  /\ Len(last.value) = 0
  /\ recipes = <<>>
  /\ Len(pending) > 0

\* some favourite has the name of recipe
HasName(favorites, recipe) ==
  \E k \in 1..Len(favorites) : favorites[k].recipeName = recipe.recipeName

\* C10: toggling a recipe whose name is not among the favourites appends it
\* once; toggling it again removes it and restores the list; a third toggle
\* adds it again: two toggles in a row are the identity on such a list.
C10_ToggleTwiceIsIdentity ==
  [][ /\ \A r \in Recipes :
           ~HasName(favoriteRecipes, r)
             => /\ toggleFavorite(favoriteRecipes, r) = Append(favoriteRecipes, r)
                /\ toggleFavorite(toggleFavorite(favoriteRecipes, r), r) = favoriteRecipes
                /\ toggleFavorite(toggleFavorite(toggleFavorite(favoriteRecipes, r), r), r)
                     = Append(favoriteRecipes, r)
      /\ last'.op = "handleToggleFavorite"
           => IF ~HasName(favoriteRecipes, selectedRecipe)
              THEN favoriteRecipes' = Append(favoriteRecipes, selectedRecipe)
              ELSE /\ ~HasName(favoriteRecipes', selectedRecipe)
                   /\ LET n == Len(favoriteRecipes)
                          before == SubSeq(favoriteRecipes, 1, n - 1)
                      IN  (favoriteRecipes[n] = selectedRecipe
                             /\ ~HasName(before, selectedRecipe))
                            => favoriteRecipes' = before ]_vars

\* a recipe was toggled out of the favourites and another favourite stayed
C10_Witness ==
  /\ last.op = "handleToggleFavorite"
  /\ ~HasName(favoriteRecipes, selectedRecipe)
  /\ Len(favoriteRecipes) > 0


\* C11: a rejected generate call, chained after an identification or started
\* from the button, leaves the ingredient list as it was; it sets error to the
\* generation-failure message, loading to false and the status message to
\* empty, and changes nothing else: recipes, favourites and profile stay.
C11_GenerateFailureKeepsLists ==
  [][ last'.op = "generateRejected"
        => /\ ingredients' = ingredients
           /\ error' = GenerateFailedMsg
           /\ isLoading' = FALSE
           /\ loadingMessage' = ""
           /\ UNCHANGED <<recipes, favoriteRecipes, profile, isAuthenticated,
                          shoppingList, activeTab, selectedRecipe, isCameraOpen>> ]_vars

\* a generate call was rejected and the identified ingredients and the recipes
\* of an earlier call are still there
C11_Witness ==
  /\ last.op = "generateRejected"
  /\ error = GenerateFailedMsg
  /\ Len(ingredients) > 0
  /\ Len(recipes) > 0


\* an identify call settled without a list to go on with: it resolved with an
\* empty list or it was rejected
IdentifiedNothing ==
  \/ last'.op = "identifyRejected"
  \/ last'.op = "identifyResolved" /\ Len(last'.value) = 0

\* C12 as stated: the status goes from identifying to suggesting only when an
\* identify call resolved with a non-empty list; no generate request follows an
\* empty or rejected identification; an empty identification ends with loading
\* false, error null and empty ingredient and recipe lists.
C12_EmptyIdentificationEndsClean ==
  [][ /\ (loadingMessage = IdentifyingMsg /\ loadingMessage' = SuggestingMsg)
           => ChainedWithIngredients
      /\ IdentifiedNothing
           => NumCalls(pending', "generate") = NumCalls(pending, "generate")
      /\ (last'.op = "identifyResolved" /\ Len(last'.value) = 0)
           => /\ isLoading' = FALSE
              /\ error' = Null
              /\ ingredients' = <<>>
              /\ recipes' = <<>> ]_vars

\* C12 amended: a settling call turns the status to suggesting only when it
\* is an identify call resolved with a non-empty list; no generate request
\* follows an empty or rejected identification; an empty identification ends
\* with loading false, an empty status message and an empty ingredient list,
\* and leaves the recipe list and error as they were: empty and null when it
\* follows its capture directly.
C12_EmptyIdentificationStops ==
  [][ /\ (SettleStep /\ loadingMessage' = SuggestingMsg) => ChainedWithIngredients
      /\ IdentifiedNothing
           => /\ NumCalls(pending', "generate") = NumCalls(pending, "generate")
              /\ Len(pending') = Len(pending) - 1
      /\ (last'.op = "identifyResolved" /\ Len(last'.value) = 0)
           => /\ isLoading' = FALSE
              /\ loadingMessage' = ""
              /\ ingredients' = <<>>
              /\ recipes' = recipes
              /\ error' = error
              /\ last.op = "handleCapture" => (recipes' = <<>> /\ error' = Null) ]_vars

\* an identification found nothing while the recipes of another workflow,
\* settled since the capture, are on screen
C12_Witness ==
  /\ last.op = "identifyResolved"
  /\ Len(last.value) = 0
  /\ isLoading = FALSE
  /\ Len(recipes) > 0


\* C13 as stated: the selected recipe is, in every reachable state, null or a
\* member of the recipe list or of the favourites.
C13_SelectionIsListed ==
  \/ selectedRecipe = NoRecipe
  \/ Includes(recipes, selectedRecipe)
  \/ Includes(favoriteRecipes, selectedRecipe)

\* C13 amended: the selection changes only by selecting and by going back; a
\* recipe is a member of the recipe list or of the favourites at the moment
\* it is selected, and it stays selected when the recipe list is replaced or
\* it is toggled out of the favourites.
C13_SelectionListedWhenSelected ==
  [][ selectedRecipe' # selectedRecipe
        => \/ last'.op = "back" /\ selectedRecipe' = NoRecipe
           \/ /\ last'.op = "selectRecipe"
              /\ \/ Includes(recipes, selectedRecipe')
                 \/ Includes(favoriteRecipes, selectedRecipe') ]_vars

\* the recipe on screen was taken out of the favourites and is in neither list
C13_Witness ==
  /\ last.op = "handleToggleFavorite"
  /\ selectedRecipe # NoRecipe
  /\ ~Includes(recipes, selectedRecipe)
  /\ ~Includes(favoriteRecipes, selectedRecipe)


\* C14: handleAddIngredient with a name already in the list leaves the list
\* and all other state unchanged; with a name not in it, it appends the name
\* at the end and changes nothing else.
C14_AddRejectsDuplicate ==
  [][ last'.op = "handleAddIngredient"
        => LET name == last'.value[1]
           IN  /\ ingredients' = IF Includes(ingredients, name)
                                 THEN ingredients
                                 ELSE Append(ingredients, name)
               /\ UNCHANGED <<isAuthenticated, recipes, favoriteRecipes,
                              shoppingList, isLoading, loadingMessage, error,
                              activeTab, selectedRecipe, isCameraOpen, profile,
                              pending>> ]_vars

\* a name that is in the list, and not at its end, was added again
C14_Witness ==
  /\ last.op = "handleAddIngredient"
  /\ Len(ingredients) = 2
  /\ ingredients[1] = last.value[1]
  /\ ingredients[2] # last.value[1]

\* C15: handleRemoveIngredient with an index below 0 or not below the length
\* leaves the list unchanged and sets no error; with an index in range it
\* removes the element at that position and keeps the order of the others.
C15_RemoveByPosition ==
  [][ last'.op = "handleRemoveIngredient"
        => LET index == last'.value[1]
               n == Len(ingredients)
           IN  /\ error' = error
               /\ IF index < 0 \/ index >= n
                  THEN ingredients' = ingredients
                  ELSE ingredients' = SubSeq(ingredients, 1, index)
                                        \o SubSeq(ingredients, index + 2, n) ]_vars

\* a removal at index -1 left a list of two as it was
C15_Witness ==
  /\ last.op = "handleRemoveIngredient"
  /\ last.value[1] = -1
  /\ Len(ingredients) = 2


\* C16: a capture, from any state and before its identify call settles, gives
\* loading = true with the identifying status, empty ingredient and recipe
\* lists, error = null and the camera closed, and leaves favourites, profile,
\* active tab and selected recipe as they were.
C16_CaptureResetsWorkflowState ==
  [][ last'.op = "handleCapture"
        => /\ isLoading' = TRUE
           /\ loadingMessage' = IdentifyingMsg
           /\ ingredients' = <<>>
           /\ recipes' = <<>>
           /\ error' = Null
           /\ isCameraOpen' = FALSE
           /\ UNCHANGED <<favoriteRecipes, profile, activeTab, selectedRecipe>> ]_vars

\* a capture made with a favourite stored, a recipe selected and another tab
\* active
C16_Witness ==
  /\ last.op = "handleCapture"
  /\ isLoading
  /\ Len(favoriteRecipes) > 0
  /\ selectedRecipe # NoRecipe
  /\ activeTab # "Inicio"


\* C17: whenever an identify or generate call is pending, loading is true,
\* also after a second action was triggered while the first was pending.
C17_PendingImpliesLoading == Len(pending) > 0 => isLoading

\* C18: the loading flag and the status message agree: loading is false
\* exactly when the message is empty, and while loading is true the message is
\* the identifying or the suggesting text.
C18_LoadingAgreesWithMessage ==
  /\ isLoading <=> loadingMessage # ""
  /\ isLoading => loadingMessage \in {IdentifyingMsg, SuggestingMsg}

\* loading with the suggesting text while an identify call is pending as well
C18_Witness ==
  /\ isLoading
  /\ loadingMessage = SuggestingMsg
  /\ NumCalls(pending, "identify") = 1
  /\ NumCalls(pending, "generate") = 1

\* C19: the favourites never hold two recipes of the same name.
C19_FavoriteNamesDistinct ==
  \A i, j \in 1..Len(favoriteRecipes) :
    i # j => favoriteRecipes[i].recipeName # favoriteRecipes[j].recipeName

\* a toggle appended a recipe from a later recipe list to a favourite of
\* another name
C19_Witness ==
  /\ last.op = "handleToggleFavorite"
  /\ Len(favoriteRecipes) = 2
  /\ favoriteRecipes[2] = selectedRecipe
  /\ ~Includes(recipes, favoriteRecipes[1])

\* C20: the main button opens the camera and issues no request when the
\* ingredient list is empty, and issues one generate request for the current
\* ingredient list without opening the camera otherwise; the camera opens in
\* no other way, and a capture starts only with the camera open: it was
\* opened on an empty ingredient list.
C20_ButtonOpensCameraOnEmptyList ==
  [][ /\ last'.op = "handleIdentifyClick"
           => IF Len(ingredients) = 0
              THEN isCameraOpen' = TRUE /\ pending' = pending
              ELSE /\ isCameraOpen' = isCameraOpen
                   /\ Len(pending') = Len(pending) + 1
                   /\ SubSeq(pending', 1, Len(pending)) = pending
                   /\ pending'[Len(pending')].call = "generate"
                   /\ pending'[Len(pending')].ingredients = ingredients
      /\ (~isCameraOpen /\ isCameraOpen')
           => (last'.op = "handleIdentifyClick" /\ Len(ingredients) = 0)
      /\ last'.op = "handleCapture" => isCameraOpen ]_vars

\* the button asked for recipes for a list of two and the camera stayed shut
C20_Witness ==
  /\ last.op = "handleIdentifyClick"
  /\ Len(ingredients) = 2
  /\ isCameraOpen = FALSE
  /\ Len(pending) > 0
  /\ pending[Len(pending)].ingredients = ingredients

====
